---- MODULE Spec2Model ----
(***************************************************************************)
(* Escape-room operator app (src/src/App.jsx, the first App in the file).  *)
(* One App component runs in every browser window of the origin: the main  *)
(* operational view and the hint-only windows opened as /?hint=CODE.  All  *)
(* of them share the four localStorage slots.                              *)
(*                                                                         *)
(* Strings are sequences of one-character strings so that trim() and       *)
(* toUpperCase() are computed and not assumed.                             *)
(***************************************************************************)
EXTENDS Integers, Sequences, FiniteSets, TLC

\* ======= Bounds of the model =======
MaxBonus == 2
MaxClockSteps == 1

\* ======= Config (App.jsx lines 16-21) =======
DEFAULT_DURATION_MIN == 70
MAX_HINT_USES == 3
FREE_HINT_CODES == { <<"E", "-", "0", "0">> }
ADMIN_CODE == <<"A", "D", "M", "I", "N", "-", "2", "0", "2", "6">>

\* ======= Strings =======
Null == -1

Whitespace == {" "}

RECURSIVE TrimStart(_)
TrimStart(s) ==
  IF s # <<>> /\ Head(s) \in Whitespace THEN TrimStart(Tail(s)) ELSE s

RECURSIVE TrimEnd(_)
TrimEnd(s) ==
  IF s # <<>> /\ s[Len(s)] \in Whitespace
  THEN TrimEnd(SubSeq(s, 1, Len(s) - 1))
  ELSE s

\* String.prototype.trim
Trim(s) == TrimEnd(TrimStart(s))

UpperChar(c) ==
  CASE c = "a" -> "A"
    [] c = "d" -> "D"
    [] c = "e" -> "E"
    [] c = "i" -> "I"
    [] c = "m" -> "M"
    [] c = "n" -> "N"
    [] c = "z" -> "Z"
    [] OTHER -> c

\* String.prototype.toUpperCase
ToUpperCase(s) == [i \in 1..Len(s) |-> UpperChar(s[i])]

\* normalizeCode(code): (code || "").trim().toUpperCase()
normalizeCode_TrimOnly(code) == Trim(code)

normalizeCode(code) == ToUpperCase(Trim(code))

\* ======= Decimal strings: String(n) and Number(raw) =======
Digits == <<"0", "1", "2", "3", "4", "5", "6", "7", "8", "9">>

DigitValue(c) == CHOOSE d \in 0..9 : Digits[d + 1] = c

IsDigit(c) == \E d \in 0..9 : Digits[d + 1] = c

RECURSIVE StringOfNat(_)
StringOfNat(n) ==
  IF n < 10 THEN <<Digits[n + 1]>>
  ELSE Append(StringOfNat(n \div 10), Digits[(n % 10) + 1])

\* String(n) for the integers the counters hold
String(n) == IF n < 0 THEN <<"-">> \o StringOfNat(-n) ELSE StringOfNat(n)

RECURSIVE NatOfString(_)
NatOfString(s) ==
  IF s = <<>> THEN 0
  ELSE 10 * NatOfString(SubSeq(s, 1, Len(s) - 1)) + DigitValue(s[Len(s)])

AllDigits(s) == \A i \in 1..Len(s) : IsDigit(s[i])

\* A stored item: getItem returns null for a key never written.
NoItem == [present |-> FALSE, raw |-> <<>>]
Item(raw) == [present |-> TRUE, raw |-> raw]

NaN == -999999

\* Number(raw): null and "" give 0, a decimal numeral its value, else NaN
Number(item) ==
  LET s == Trim(item.raw) IN
  IF ~item.present \/ s = <<>> THEN 0
  ELSE IF AllDigits(s) THEN NatOfString(s)
  ELSE IF Head(s) = "-" /\ Len(s) > 1 /\ AllDigits(Tail(s)) THEN -NatOfString(Tail(s))
  ELSE NaN

\* Number.isFinite(x): false for NaN and for null
NumberIsFinite(x) == x # NaN /\ x # Null

\* ======= JSON values =======
JsonNull == [type |-> "null", value |-> <<>>]

\* JSON.stringify(x) followed by JSON.parse gives back an object value
JSONstringify(x) == [type |-> "object", value |-> x]

\* A stored text that JSON.parse rejects
Unparsable == [type |-> "garbage", value |-> <<>>]

\* A stored text that parses to a number
JsonNumber(n) == [type |-> "number", value |-> n]

\* safeJsonParse(raw, fallback): fallback when the item is absent or
\* JSON.parse throws
safeJsonParse(item, fallback) ==
  IF ~item.present \/ item.raw = Unparsable THEN fallback ELSE item.raw

\* ======= localStorage keys (App.jsx lines 24-27) =======
LS_HINTS == "escape_hints_v1"
LS_USES == "escape_hint_uses_v1"
LS_TIMER == "escape_timer_v1"
LS_BONUS == "escape_hint_bonus_v1"

LS_KEYS == {LS_HINTS, LS_USES, LS_TIMER, LS_BONUS}

\* ======= Windows =======
\* The main operational view and the hint window it opens
Main == "main"
Popup == "popup"
Views == {Main, Popup}
Popups == {Popup}

\* ======= Seed dictionary (useState initializer of hints) =======
\* The free code and one consumable code of the nineteen seeded entries;
\* the texts are shortened.
E_00 == <<"E", "-", "0", "0">>
E_01 == <<"E", "-", "0", "1">>
E_19 == <<"E", "-", "1", "9">>

DefaultHints ==
  [c \in {E_00, E_01} |->
     IF c = E_00 THEN [title |-> <<"T", "0">>, body |-> <<"B", "0">>]
     ELSE [title |-> <<"T", "1">>, body |-> <<"B", "1">>]]

\* ======= Clock =======
CLOCK_0 == 1000
\* A step of wall-clock time that outlasts a countdown of the default
\* duration by one second, and a step of half that length
ClockStep == DEFAULT_DURATION_MIN * 60 * 1000 + 1000
ShortStep == ClockStep \div 2

VARIABLES
  localStorage,   \* key -> stored item
  clock,          \* Date.now(), ms
  app,            \* window -> state of the App instance running in it
  last            \* what the last step did and what it showed to the operator

vars == <<localStorage, clock, app, last>>

\* A window that is not open
ClosedView ==
  [phase |-> "closed", hintParam |-> <<>>, hints |-> DefaultHints,
   hintUses |-> 0, hintBonus |-> 0,
   durationSec |-> DEFAULT_DURATION_MIN * 60, running |-> FALSE,
   startAtMs |-> Null, nowMs |-> 0,
   adminMode |-> FALSE, adminAddRemaining |-> 0,
   intervalRef |-> "null", liveIntervals |-> 0, pendingEffects |-> FALSE,
   timerDeps |-> [durationSec |-> DEFAULT_DURATION_MIN * 60, running |-> FALSE, startAtMs |-> Null]]

TimerOf(a) == [durationSec |-> a.durationSec, running |-> a.running, startAtMs |-> a.startAtMs]

\* useState initializer of hintUses: Number(getItem) if finite, else 0
InitialHintUses(store) ==
  LET saved == Number(store[LS_USES]) IN
  IF NumberIsFinite(saved) THEN saved ELSE 0

\* useState initializer of hintBonus
InitialHintBonus(store) ==
  LET saved == Number(store[LS_BONUS]) IN
  IF NumberIsFinite(saved) THEN saved ELSE 0

\* useState initializer of hints
InitialHints(store) ==
  LET saved == safeJsonParse(store[LS_HINTS], JsonNull) IN
  IF saved.type = "object" THEN saved.value ELSE DefaultHints

\* First render of App in a window whose URL carries ?hint=param:
\* every useState initializer, reading the storage as it is at that moment.
Render(store, now, param) ==
  [phase |-> "rendered", hintParam |-> normalizeCode(param),
   hints |-> InitialHints(store),
   hintUses |-> InitialHintUses(store), hintBonus |-> InitialHintBonus(store),
   durationSec |-> DEFAULT_DURATION_MIN * 60, running |-> FALSE,
   startAtMs |-> Null, nowMs |-> now,
   adminMode |-> FALSE, adminAddRemaining |-> 0,
   intervalRef |-> "null", liveIntervals |-> 0, pendingEffects |-> FALSE,
   timerDeps |-> [durationSec |-> DEFAULT_DURATION_MIN * 60, running |-> FALSE, startAtMs |-> Null]]

\* Derived limits
maxHintUses(a) == MAX_HINT_USES + a.hintBonus
hintRemaining(a) == maxHintUses(a) - a.hintUses

isHintWindow(a) == a.hintParam # <<>>

\* What App returns: HintWindow with hints[hintParam], which shows the
\* record or, when there is none, the invalid-code text; else the main view
Shown(a) ==
  IF isHintWindow(a)
  THEN IF a.hintParam \in DOMAIN a.hints THEN "HintRecord" ELSE "InvalidCode"
  ELSE "MainView"

\* Math.max(0, x)
ClampAtZero_Off(x) == x

ClampAtZero(x) == IF x > 0 THEN x ELSE 0

\* remainingSec, in ms: durationSec when stopped or never started,
\* else max(0, durationSec - elapsed)
remainingMs(a) ==
  IF ~a.running \/ a.startAtMs = Null \/ a.startAtMs = 0
  THEN a.durationSec * 1000
  ELSE ClampAtZero(a.durationSec * 1000 - (a.nowMs - a.startAtMs))

Saw(op, result, arg) == [op |-> op, result |-> result, arg |-> arg]

EmptyStorage == [k \in LS_KEYS |-> NoItem]

Init ==
  /\ localStorage = EmptyStorage
  /\ clock = CLOCK_0
  /\ app = [v \in Views |-> IF v = Main THEN Render(EmptyStorage, CLOCK_0, <<>>) ELSE ClosedView]
  /\ last = Saw("open", "Rendered", <<>>)

\* ======= Effects =======
setItem(store, key, raw) == [store EXCEPT ![key] = Item(raw)]

\* clearInterval(intervalRef.current) when the ref is set
ClearInterval_Noop(a) == a

ClearInterval(a) ==
  IF a.intervalRef = "live"
  THEN [a EXCEPT !.intervalRef = "dead", !.liveIntervals = @ - 1]
  ELSE a

\* Body of the tick effect for the committed value of running
TickEffect(a) ==
  IF a.running
  THEN [ClearInterval(a) EXCEPT !.intervalRef = "live", !.liveIntervals = @ + 1]
  ELSE [ClearInterval(a) EXCEPT !.intervalRef = "null"]

\* Load timer from storage on mount: each field only if it validates
LoadTimer(a, store) ==
  LET saved == safeJsonParse(store[LS_TIMER], JsonNull) IN
  IF saved.type = "object"
  THEN [a EXCEPT
          !.durationSec = IF NumberIsFinite(saved.value.durationSec)
                          THEN saved.value.durationSec ELSE @,
          !.running = IF saved.value.running \in BOOLEAN
                      THEN saved.value.running ELSE @,
          !.startAtMs = IF NumberIsFinite(saved.value.startAtMs)
                        THEN saved.value.startAtMs ELSE @]
  ELSE a

\* The passive effects of the first commit, in source order: persist hints,
\* uses and bonus; load the timer; persist the timer (the values of the first
\* render); tick effect.  The loaded values are a state update, so they are
\* committed by a later render whose effects are still to run.
MountEffects(v) ==
  LET a == app[v]
      loaded == LoadTimer(a, localStorage)
      s1 == setItem(localStorage, LS_HINTS, JSONstringify(a.hints))
      s2 == setItem(s1, LS_USES, String(a.hintUses))
      s3 == setItem(s2, LS_BONUS, String(a.hintBonus))
      s4 == setItem(s3, LS_TIMER, JSONstringify(TimerOf(a)))
  IN
  /\ a.phase = "rendered"
  /\ localStorage' = s4
  /\ app' = [app EXCEPT ![v] =
                [TickEffect(a) EXCEPT
                   !.durationSec = loaded.durationSec,
                   !.running = loaded.running,
                   !.startAtMs = loaded.startAtMs,
                   !.phase = "ready",
                   !.timerDeps = TimerOf(a),
                   !.pendingEffects = (TimerOf(loaded) # TimerOf(a))]]
  /\ last' = Saw("mount", "Mounted", <<>>)
  /\ UNCHANGED clock

\* Condition of the auto-stop effect: running && remainingSec <= 0
Expired_StrictlyBelow(a) == a.running /\ remainingMs(a) < 0

Expired(a) == a.running /\ remainingMs(a) <= 0

\* The passive effects of a later commit: persist the timer when one of its
\* three fields changed, the tick effect when running changed, and the
\* auto-stop effect, which stops the timer and raises the notification.
RunEffects(v) ==
  LET a == app[v]
      timerChanged == TimerOf(a) # a.timerDeps
      runningChanged == a.running # a.timerDeps.running
      ticked == IF runningChanged
                THEN TickEffect(IF a.timerDeps.running THEN ClearInterval(a) ELSE a)
                ELSE a
      expired == Expired(a)
  IN
  /\ a.phase = "ready"
  /\ a.pendingEffects
  /\ localStorage' = IF timerChanged
                      THEN setItem(localStorage, LS_TIMER, JSONstringify(TimerOf(a)))
                      ELSE localStorage
  /\ app' = [app EXCEPT ![v] =
                [ticked EXCEPT
                   !.timerDeps = TimerOf(a),
                   !.running = IF expired THEN FALSE ELSE @,
                   !.pendingEffects = expired]]
  /\ last' = Saw("effects", IF expired THEN "TimeExpired" ELSE "Flushed", <<>>)
  /\ UNCHANGED clock

\* setInterval callback: setNowMs(Date.now())
Tick(v) ==
  LET a == app[v] IN
  /\ a.phase = "ready"
  /\ a.liveIntervals > 0
  /\ a.nowMs # clock
  /\ app' = [app EXCEPT ![v] =
                [a EXCEPT !.nowMs = clock,
                          !.pendingEffects = TRUE]]
  /\ last' = Saw("tick", "Ticked", <<>>)
  /\ UNCHANGED <<localStorage, clock>>

\* Wall-clock time passes: Date.now() is d ms later
AdvanceClockBy(d) ==
  /\ clock + d <= CLOCK_0 + MaxClockSteps * ClockStep
  /\ clock' = clock + d
  /\ last' = Saw("clock", "Advanced", <<>>)
  /\ UNCHANGED <<localStorage, app>>

AdvanceClock == AdvanceClockBy(ClockStep)

\* The browser reloads a window: the page is torn down and App renders anew
Reload_KeepsSession(v) ==
  /\ app[v].phase # "closed"
  /\ app' = [app EXCEPT ![v] =
                [Render(localStorage, clock, app[v].hintParam) EXCEPT
                   !.adminMode = app[v].adminMode,
                   !.adminAddRemaining = app[v].adminAddRemaining]]
  /\ last' = Saw("reload", "Rendered", <<>>)
  /\ UNCHANGED <<localStorage, clock>>

Reload(v) ==
  /\ app[v].phase # "closed"
  /\ app' = [app EXCEPT ![v] = Render(localStorage, clock, app[v].hintParam)]
  /\ last' = Saw("reload", "Rendered", <<>>)
  /\ UNCHANGED <<localStorage, clock>>

\* A window is navigated to /?hint=param, by the window.open of
\* handleUseHint or handlePopupTest or by hand, and App renders in it:
\* the window is a browsing context of its own and loads the page by itself.
OpenHintWindow(param) ==
  /\ app[Popup].phase = "closed"
  /\ app' = [app EXCEPT ![Popup] = Render(localStorage, clock, param)]
  /\ last' = Saw("navigate", "Rendered", <<>>)
  /\ UNCHANGED <<localStorage, clock>>

\* window.close() of a hint window
ClosePopup(v) ==
  /\ v \in Popups
  /\ app[v].phase # "closed"
  /\ app' = [app EXCEPT ![v] = ClosedView]
  /\ last' = Saw("close", "Closed", <<>>)
  /\ UNCHANGED <<localStorage, clock>>

\* ======= Operator inputs =======
\* What the operator may type into the hint code field
HintCodeInputs ==
  { E_00,
    <<" ", "e", "-", "0", "1", " ">>,
    E_19,
    <<"Z", "Z">>,
    <<" ">> }

\* What the operator may type into the admin code field or the prompt
AdminCodeInputs ==
  { ADMIN_CODE,
    <<" ">> \o ADMIN_CODE \o <<" ">>,
    <<"a", "d", "m", "i", "n", "-", "2", "0", "2", "6">>,
    <<>> }

\* What the operator may type into the new-hint form: code, title, body
NewHintInputs ==
  { <<<<" ", "e", "-", "1", "9">>, <<" ", "N", " ">>, <<"N">>>>,
    <<<<"e", "-", "0", "1">>, <<"T", "1">>, <<"B", "1">>>>,
    <<<<" ">>, <<"N">>, <<"N">>>>,
    <<E_19, <<" ">>, <<"N">>>>,
    <<E_19, <<"N">>, <<>>>> }

\* ======= Handlers of the main view =======
\* The operator can act on the main view once it is mounted and its
\* pending effects are flushed.
Operable == 
  /\ app[Main].phase = "ready"
  /\ ~app[Main].pendingEffects
  /\ ~isHintWindow(app[Main])

QuotaAllows_OffByOne(a, isFree) == isFree \/ ~(a.hintUses > maxHintUses(a))

\* The quota gate of handleUseHint: a non-free code passes only below the limit
QuotaAllows(a, isFree) == isFree \/ ~(a.hintUses >= maxHintUses(a))

UsesAfterUse_CountsFree(a, isFree) == a.hintUses + 1

UsesAfterUse_FreeResets(a, isFree) == IF isFree THEN 0 ELSE a.hintUses + 1

\* setHintUses((x) => x + 1), for a non-free code only
UsesAfterUse(a, isFree) == IF isFree THEN a.hintUses ELSE a.hintUses + 1

\* The order of the second App of the file: the quota is checked before the
\* code is resolved.
handleUseHint_QuotaFirst(input, opened) ==
  LET a == app[Main]
      code == normalizeCode(input)
      uses == a.hintUses + 1
  IN
  /\ Operable
  /\ IF a.hintUses >= maxHintUses(a) THEN
       /\ ~opened
       /\ last' = Saw("use", "QuotaExceeded", code)
       /\ UNCHANGED <<localStorage, app>>
     ELSE IF code = <<>> THEN
       /\ ~opened
       /\ last' = Saw("use", "EmptyCode", code)
       /\ UNCHANGED <<localStorage, app>>
     ELSE IF code \notin DOMAIN a.hints THEN
       /\ ~opened
       /\ last' = Saw("use", "NotFound", code)
       /\ UNCHANGED <<localStorage, app>>
     ELSE
       /\ localStorage' = setItem(localStorage, LS_USES, String(uses))
       /\ app' = [app EXCEPT ![Main] = [a EXCEPT !.hintUses = uses]]
       /\ last' = Saw("use", IF opened THEN "Opened" ELSE "PopupBlocked", code)
  /\ UNCHANGED clock

\* The quota gate placed between the empty-input test and the lookup
handleUseHint_QuotaBeforeLookup(input, opened) ==
  LET a == app[Main]
      code == normalizeCode(input)
      isFree == code \in FREE_HINT_CODES
      uses == UsesAfterUse(a, isFree)
      store == IF uses # a.hintUses
               THEN setItem(localStorage, LS_USES, String(uses))
               ELSE localStorage
  IN
  /\ Operable
  /\ IF code = <<>> THEN
       /\ ~opened
       /\ last' = Saw("use", "EmptyCode", code)
       /\ UNCHANGED <<localStorage, app>>
     ELSE IF ~QuotaAllows(a, isFree) THEN
       /\ ~opened
       /\ last' = Saw("use", "QuotaExceeded", code)
       /\ UNCHANGED <<localStorage, app>>
     ELSE IF code \notin DOMAIN a.hints THEN
       /\ ~opened
       /\ last' = Saw("use", "NotFound", code)
       /\ UNCHANGED <<localStorage, app>>
     ELSE
       /\ localStorage' = store
       /\ app' = [app EXCEPT ![Main] = [a EXCEPT !.hintUses = uses]]
       /\ last' = Saw("use", IF opened THEN "Opened" ELSE "PopupBlocked", code)
  /\ UNCHANGED clock

\* handleUseHint with hintCodeInput = input; opened tells whether
\* window.open returns a window (else the popup is blocked).
handleUseHint(input, opened) ==
  LET a == app[Main]
      code == normalizeCode(input)
      isFree == code \in FREE_HINT_CODES
      uses == UsesAfterUse(a, isFree)
      store == IF uses # a.hintUses
               THEN setItem(localStorage, LS_USES, String(uses))
               ELSE localStorage
  IN
  /\ Operable
  /\ IF code = <<>> THEN
       /\ ~opened
       /\ last' = Saw("use", "EmptyCode", code)
       /\ UNCHANGED <<localStorage, app>>
     ELSE IF code \notin DOMAIN a.hints THEN
       /\ ~opened
       /\ last' = Saw("use", "NotFound", code)
       /\ UNCHANGED <<localStorage, app>>
     ELSE IF ~QuotaAllows(a, isFree) THEN
       /\ ~opened
       /\ last' = Saw("use", "QuotaExceeded", code)
       /\ UNCHANGED <<localStorage, app>>
     ELSE
       /\ localStorage' = store
       /\ app' = [app EXCEPT ![Main] = [a EXCEPT !.hintUses = uses]]
       /\ last' = Saw("use", IF opened THEN "Opened" ELSE "PopupBlocked", code)
  /\ UNCHANGED clock

\* handlePopupTest: opens the E-00 hint window, no state of the view changes
handlePopupTest(opened) ==
  /\ Operable
  /\ last' = Saw("popupTest", IF opened THEN "Opened" ELSE "PopupBlocked", <<>>)
  /\ UNCHANGED <<localStorage, clock, app>>

AdminCodeMatches_AnyCase(input) == ToUpperCase(Trim(input)) = ADMIN_CODE

\* The comparison of a submitted admin code with the secret
AdminCodeMatches(input) == Trim(input) = ADMIN_CODE

BonusAfterGrant_SetsOne(a) == 1

\* setHintBonus((b) => b + 1)
BonusAfterGrant(a) == a.hintBonus + 1

handleAdminLogin_KeepsPermit(input) ==
  LET a == app[Main] IN
  /\ Operable
  /\ ~a.adminMode
  /\ IF AdminCodeMatches(input) THEN
       /\ a.hintBonus < MaxBonus
       /\ app' = [app EXCEPT ![Main] =
                    [a EXCEPT !.hintBonus = a.hintBonus + 1,
                              !.adminMode = TRUE]]
       /\ localStorage' = setItem(localStorage, LS_BONUS, String(a.hintBonus + 1))
       /\ last' = Saw("login", "Granted", input)
     ELSE
       /\ last' = Saw("login", "InvalidCode", input)
       /\ UNCHANGED <<localStorage, app>>
  /\ UNCHANGED clock

\* setAdminAddRemaining(1) of an accepted login
PermitAtLogin_Adds(a) == a.adminAddRemaining + 1

PermitAtLogin(a) == 1

\* handleAdminLogin with adminInput = input (the form is shown while
\* adminMode is false)
handleAdminLogin(input) ==
  LET a == app[Main] IN
  /\ Operable
  /\ ~a.adminMode
  /\ IF AdminCodeMatches(input) THEN
       /\ a.hintBonus < MaxBonus
       /\ app' = [app EXCEPT ![Main] =
                    [a EXCEPT !.hintBonus = BonusAfterGrant(a),
                              !.adminMode = TRUE,
                              !.adminAddRemaining = PermitAtLogin(a)]]
       /\ localStorage' = setItem(localStorage, LS_BONUS, String(BonusAfterGrant(a)))
       /\ last' = Saw("login", "Granted", input)
     ELSE
       /\ last' = Saw("login", "InvalidCode", input)
       /\ UNCHANGED <<localStorage, app>>
  /\ UNCHANGED clock

handleTopUp_RestoresPermit(cancelled, input) ==
  LET a == app[Main]
      code == IF cancelled THEN <<>> ELSE input
  IN
  /\ Operable
  /\ a.adminMode
  /\ cancelled => input = <<>>
  /\ IF Trim(code) = ADMIN_CODE THEN
       /\ a.hintBonus < MaxBonus
       /\ app' = [app EXCEPT ![Main] =
                    [a EXCEPT !.hintBonus = a.hintBonus + 1,
                              !.adminAddRemaining = 1]]
       /\ localStorage' = setItem(localStorage, LS_BONUS, String(a.hintBonus + 1))
       /\ last' = Saw("topup", "Granted", input)
     ELSE
       /\ last' = Saw("topup", IF cancelled THEN "Cancelled" ELSE "InvalidCode", input)
       /\ UNCHANGED <<localStorage, app>>
  /\ UNCHANGED clock

\* onClick of the top-up button (shown while adminMode is true): prompt()
\* returns null when cancelled, else the typed text.
handleTopUp(cancelled, input) ==
  LET a == app[Main]
      code == IF cancelled THEN <<>> ELSE input
  IN
  /\ Operable
  /\ a.adminMode
  /\ cancelled => input = <<>>
  /\ IF AdminCodeMatches(code) THEN
       /\ a.hintBonus < MaxBonus
       /\ app' = [app EXCEPT ![Main] = [a EXCEPT !.hintBonus = BonusAfterGrant(a)]]
       /\ localStorage' = setItem(localStorage, LS_BONUS, String(BonusAfterGrant(a)))
       /\ last' = Saw("topup", "Granted", input)
     ELSE
       /\ last' = Saw("topup", IF cancelled THEN "Cancelled" ELSE "InvalidCode", input)
       /\ UNCHANGED <<localStorage, app>>
  /\ UNCHANGED clock

handleLogout_ResetsUses ==
  /\ Operable
  /\ app[Main].adminMode
  /\ app' = [app EXCEPT ![Main] = [@ EXCEPT !.adminMode = FALSE, !.hintUses = 0]]
  /\ localStorage' = setItem(localStorage, LS_USES, String(0))
  /\ last' = Saw("logout", "LoggedOut", <<>>)
  /\ UNCHANGED clock

\* onClick of the admin-off button: setAdminMode(false)
handleLogout ==
  /\ Operable
  /\ app[Main].adminMode
  /\ app' = [app EXCEPT ![Main] = [@ EXCEPT !.adminMode = FALSE]]
  /\ last' = Saw("logout", "LoggedOut", <<>>)
  /\ UNCHANGED <<localStorage, clock>>

\* { ...prev, [code]: { title, body } }
WithHint(dict, code, title, body) ==
  [c \in (DOMAIN dict) \cup {code} |->
     IF c = code THEN [title |-> title, body |-> body] ELSE dict[c]]

\* delete next[code]
WithoutHint(dict, code) == [c \in (DOMAIN dict) \ {code} |-> dict[c]]

\* setAdminAddRemaining(n => n - 1) of a successful add
PermitAfterAdd_Keeps(a) == a.adminAddRemaining

PermitAfterAdd(a) == a.adminAddRemaining - 1

\* if (hints[code]) return alert(...): the code is already a key
IsDuplicate_Never(dict, code) == FALSE

IsDuplicate(dict, code) == code \in DOMAIN dict

handleAddHint_ChargesRejected(newCode, newTitle, newBody) ==
  LET a == app[Main]
      code == normalizeCode(newCode)
      added == WithHint(a.hints, code, Trim(newTitle), Trim(newBody))
      charged == [app EXCEPT ![Main] = [a EXCEPT !.adminAddRemaining = @ - 1]]
  IN
  /\ Operable
  /\ IF ~a.adminMode THEN
       /\ last' = Saw("add", "Ignored", <<>>)
       /\ UNCHANGED <<localStorage, app>>
     ELSE IF a.adminAddRemaining <= 0 THEN
       /\ last' = Saw("add", "AddQuotaExhausted", <<>>)
       /\ UNCHANGED <<localStorage, app>>
     ELSE IF code = <<>> \/ Trim(newTitle) = <<>> \/ Trim(newBody) = <<>> THEN
       /\ last' = Saw("add", "EmptyField", code)
       /\ app' = charged
       /\ UNCHANGED localStorage
     ELSE IF IsDuplicate(a.hints, code) THEN
       /\ last' = Saw("add", "DuplicateCode", code)
       /\ app' = charged
       /\ UNCHANGED localStorage
     ELSE
       /\ app' = [app EXCEPT ![Main] =
                    [a EXCEPT !.hints = added,
                              !.adminAddRemaining = PermitAfterAdd(a)]]
       /\ localStorage' = setItem(localStorage, LS_HINTS, JSONstringify(added))
       /\ last' = Saw("add", "Added", code)
  /\ UNCHANGED clock

\* handleAddHint with the form fields newCode, newTitle, newBody.  The
\* observation carries the normalized code once the handler has computed it,
\* that is after the two session gates.
handleAddHint(newCode, newTitle, newBody) ==
  LET a == app[Main]
      code == normalizeCode(newCode)
      added == WithHint(a.hints, code, Trim(newTitle), Trim(newBody))
  IN
  /\ Operable
  /\ IF ~a.adminMode THEN
       /\ last' = Saw("add", "Ignored", <<>>)
       /\ UNCHANGED <<localStorage, app>>
     ELSE IF a.adminAddRemaining <= 0 THEN
       /\ last' = Saw("add", "AddQuotaExhausted", <<>>)
       /\ UNCHANGED <<localStorage, app>>
     ELSE IF code = <<>> \/ Trim(newTitle) = <<>> \/ Trim(newBody) = <<>> THEN
       /\ last' = Saw("add", "EmptyField", code)
       /\ UNCHANGED <<localStorage, app>>
     ELSE IF IsDuplicate(a.hints, code) THEN
       /\ last' = Saw("add", "DuplicateCode", code)
       /\ UNCHANGED <<localStorage, app>>
     ELSE
       /\ app' = [app EXCEPT ![Main] =
                    [a EXCEPT !.hints = added,
                              !.adminAddRemaining = PermitAfterAdd(a)]]
       /\ localStorage' = setItem(localStorage, LS_HINTS, JSONstringify(added))
       /\ last' = Saw("add", "Added", code)
  /\ UNCHANGED clock

\* if (!confirm(...)) return: the delete goes on only when confirmed
ConfirmAllows_Always(confirmed) == TRUE

ConfirmAllows(confirmed) == confirmed

\* handleDeleteHint(code) from the row of an entry; confirmed is the
\* answer to confirm(), whose message names the code.  Once the dialog was
\* shown the observation records the operator's answer.
handleDeleteHint(code, confirmed) ==
  LET a == app[Main]
      removed == WithoutHint(a.hints, code)
  IN
  /\ Operable
  /\ code \in DOMAIN a.hints
  /\ IF ~a.adminMode THEN
       /\ confirmed = FALSE
       /\ last' = Saw("delete", "Ignored", <<>>)
       /\ UNCHANGED <<localStorage, app>>
     ELSE IF ~ConfirmAllows(confirmed) THEN
       /\ last' = Saw("delete", "Dismissed", code)
       /\ UNCHANGED <<localStorage, app>>
     ELSE
       /\ app' = [app EXCEPT ![Main] = [a EXCEPT !.hints = removed]]
       /\ localStorage' = setItem(localStorage, LS_HINTS, JSONstringify(removed))
       /\ last' = Saw("delete", IF confirmed THEN "Deleted" ELSE "Dismissed", code)
  /\ UNCHANGED clock

\* if (running) return
StartIgnored_Never(a) == FALSE

StartIgnored(a) == a.running

\* A start that resumes from a startAtMs left by an earlier countdown
handleStart_KeepsOldStart ==
  LET a == app[Main]
      started == [a EXCEPT !.startAtMs = IF @ = Null THEN clock ELSE @,
                           !.nowMs = clock, !.running = TRUE]
  IN
  /\ Operable
  /\ IF StartIgnored(a) THEN
       /\ last' = Saw("start", "Ignored", <<>>)
       /\ UNCHANGED <<localStorage, app>>
     ELSE
       /\ app' = [app EXCEPT ![Main] =
                    [TickEffect(started) EXCEPT !.timerDeps = TimerOf(started)]]
       /\ localStorage' = setItem(localStorage, LS_TIMER, JSONstringify(TimerOf(started)))
       /\ last' = Saw("start", "Started", <<>>)
  /\ UNCHANGED clock

\* handleStart: the click is handled synchronously, so the render and its
\* effects (persist timer, tick effect) complete within the step.
handleStart ==
  LET a == app[Main]
      started == [a EXCEPT !.startAtMs = clock, !.nowMs = clock, !.running = TRUE]
  IN
  /\ Operable
  /\ IF StartIgnored(a) THEN
       /\ last' = Saw("start", "Ignored", <<>>)
       /\ UNCHANGED <<localStorage, app>>
     ELSE
       /\ app' = [app EXCEPT ![Main] =
                    [TickEffect(started) EXCEPT !.timerDeps = TimerOf(started)]]
       /\ localStorage' = setItem(localStorage, LS_TIMER, JSONstringify(TimerOf(started)))
       /\ last' = Saw("start", "Started", <<>>)
  /\ UNCHANGED clock

\* ======= Specification =======
\* The main view alone
Next ==
  \/ MountEffects(Main)
  \/ RunEffects(Main)
  \/ Tick(Main)
  \/ Reload(Main)
  \/ AdvanceClock
  \/ \E input \in HintCodeInputs, opened \in BOOLEAN : handleUseHint(input, opened)
  \/ \E opened \in BOOLEAN : handlePopupTest(opened)
  \/ \E input \in AdminCodeInputs : handleAdminLogin(input)
  \/ \E cancelled \in BOOLEAN, input \in AdminCodeInputs : handleTopUp(cancelled, input)
  \/ handleLogout
  \/ \E f \in NewHintInputs : handleAddHint(f[1], f[2], f[3])
  \/ \E c \in DOMAIN app[Main].hints, ok \in BOOLEAN : handleDeleteHint(c, ok)
  \/ handleStart

Spec == Init /\ [][Next]_vars

\* The hint ledger of the main view together with a hint window on the
\* same storage; the timer is left at rest.
HintParams == { E_01, <<"Z", "Z">> }

NextLedgerWindows ==
  \/ MountEffects(Main)
  \/ Reload(Main)
  \/ \E input \in {E_00, E_01}, opened \in BOOLEAN : handleUseHint(input, opened)
  \/ handleAdminLogin(ADMIN_CODE)
  \/ handleLogout
  \/ \E param \in HintParams : OpenHintWindow(param)
  \/ MountEffects(Popup)
  \/ Reload(Popup)
  \/ ClosePopup(Popup)

SpecLedgerWindows == Init /\ [][NextLedgerWindows]_vars

\* The timer of the main view, with wall-clock steps shorter and longer than
\* the countdown, and hints opened while it runs
NextTimer ==
  \/ MountEffects(Main)
  \/ RunEffects(Main)
  \/ Tick(Main)
  \/ Reload(Main)
  \/ \E d \in {ShortStep, ClockStep} : AdvanceClockBy(d)
  \/ handleStart
  \/ \E opened \in BOOLEAN : handlePopupTest(opened)
  \/ \E input \in {E_00, E_01}, opened \in BOOLEAN : handleUseHint(input, opened)

SpecTimer == Init /\ [][NextTimer]_vars

\* What the timer slot may hold when the page is opened: nothing, or the
\* three-field object with a stopped timer, a timer started at CLOCK_0, a
\* running flag without a start, and a start that lies ahead of Date.now()
TimerSlotInputs ==
  { NoItem,
    Item(JSONstringify([durationSec |-> DEFAULT_DURATION_MIN * 60,
                        running |-> FALSE, startAtMs |-> Null])),
    Item(JSONstringify([durationSec |-> DEFAULT_DURATION_MIN * 60,
                        running |-> TRUE, startAtMs |-> CLOCK_0])),
    Item(JSONstringify([durationSec |-> DEFAULT_DURATION_MIN * 60,
                        running |-> TRUE, startAtMs |-> Null])),
    Item(JSONstringify([durationSec |-> DEFAULT_DURATION_MIN * 60,
                        running |-> TRUE, startAtMs |-> CLOCK_0 + ShortStep])) }

\* The page is opened on a storage whose timer slot holds one of these
InitTimerSlot ==
  /\ \E slot \in TimerSlotInputs :
       localStorage = [EmptyStorage EXCEPT ![LS_TIMER] = slot]
  /\ clock = CLOCK_0
  /\ app = [v \in Views |-> IF v = Main THEN Render(localStorage, CLOCK_0, <<>>) ELSE ClosedView]
  /\ last = Saw("open", "Rendered", <<>>)

SpecTimerSlot == InitTimerSlot /\ [][NextTimer]_vars

\* The timer of the main view left to itself: no reload.  The interval
\* callback and the passive effects are scheduled by the browser whenever
\* they are due, and wall-clock time advances up to the horizon.
Horizon == CLOCK_0 + MaxClockSteps * ClockStep

NextTimerLive ==
  \/ MountEffects(Main) \/ RunEffects(Main) \/ Tick(Main)
  \/ \E d \in {ShortStep, ClockStep} : AdvanceClockBy(d)
  \/ handleStart
  \/ \E opened \in BOOLEAN : handlePopupTest(opened)
  \/ \E input \in {E_00, E_01}, opened \in BOOLEAN : handleUseHint(input, opened)

SpecTimerLive ==
  /\ Init
  /\ [][NextTimerLive]_vars
  /\ WF_vars(\E d \in {ShortStep, ClockStep} : AdvanceClockBy(d))
  /\ WF_vars(Tick(Main))
  /\ WF_vars(RunEffects(Main))
  /\ WF_vars(MountEffects(Main))

\* The hint ledger of the main view loaded from slots of any content:
\* absent, a numeral, a negative numeral, text that is no number, the empty
\* string; absent, unparsable text, a JSON number, a stored dictionary.
UsesSlotInputs ==
  { NoItem, Item(<<"2">>), Item(<<"-", "1">>), Item(<<"x">>), Item(<<>>) }

BonusSlotInputs ==
  { NoItem, Item(<<"1">>), Item(<<"-", "2">>), Item(<<"x">>) }

StoredHints == [c \in {E_19} |-> [title |-> <<"N">>, body |-> <<"N">>]]

HintsSlotInputs ==
  { NoItem, Item(Unparsable), Item(JsonNumber(5)), Item(JSONstringify(StoredHints)) }

InitSlots ==
  /\ \E u \in UsesSlotInputs, b \in BonusSlotInputs, h \in HintsSlotInputs :
       localStorage = [EmptyStorage EXCEPT ![LS_USES] = u, ![LS_BONUS] = b, ![LS_HINTS] = h]
  /\ clock = CLOCK_0
  /\ app = [v \in Views |-> IF v = Main THEN Render(localStorage, CLOCK_0, <<>>) ELSE ClosedView]
  /\ last = Saw("open", "Rendered", <<>>)

NextSlots ==
  \/ MountEffects(Main)
  \/ Reload(Main)
  \/ \E input \in {E_00, E_01, E_19}, opened \in BOOLEAN : handleUseHint(input, opened)
  \/ handleAdminLogin(ADMIN_CODE)

SpecSlots == InitSlots /\ [][NextSlots]_vars

\* Windows navigated to /?hint=param for a known code, a known code typed
\* in lower case, an unknown code, a blank code and an empty code, next to
\* a main view whose dictionary changes.
HintWindowParams ==
  { E_01, <<"e", "-", "0", "1">>, <<"Z", "Z">>, <<" ">>, <<>> }

NextHintWindows ==
  \/ MountEffects(Main)
  \/ handleAdminLogin(ADMIN_CODE)
  \/ \E c \in DOMAIN app[Main].hints : handleDeleteHint(c, TRUE)
  \/ \E param \in HintWindowParams : OpenHintWindow(param)
  \/ MountEffects(Popup)
  \/ Reload(Popup)
  \/ ClosePopup(Popup)

SpecHintWindows == Init /\ [][NextHintWindows]_vars

\* The timer of the main view together with a hint window on the same
\* storage: the window loads the timer, ticks and auto-stops like the main
\* view, each on its own copy.
NextTimerWindows ==
  \/ MountEffects(Main) \/ RunEffects(Main) \/ Tick(Main)
  \/ AdvanceClock
  \/ handleStart
  \/ OpenHintWindow(E_01)
  \/ MountEffects(Popup) \/ RunEffects(Popup) \/ Tick(Popup)
  \/ ClosePopup(Popup)

SpecTimerWindows == Init /\ [][NextTimerWindows]_vars

TypeOK ==
  /\ clock \in Nat
  /\ \A v \in Views : app[v].phase \in {"closed", "rendered", "ready"}

\* ======= Properties =======
\* The step just taken was a use that passed resolution and the quota gate,
\* so that the record went to the hint presentation (window.open was called).
UsePassed(l) == l.op = "use" /\ l.result \in {"Opened", "PopupBlocked"}

\* The step just taken was a use of a non-free code that passed
CountedUse(l) == UsePassed(l) /\ l.arg \notin FREE_HINT_CODES

\* C1: over the operator actions, ticks and effects of the main view, each
\* step raises hintUses by one exactly when it is a use of a non-free code that
\* passed (resolvable and not over quota), and leaves it alone otherwise; and
\* no such use passes from a state with hintUses >= maxHintUses.
C1_UsesCountPassedUses ==
  [][last'.op # "reload" =>
       /\ app'[Main].hintUses =
            app[Main].hintUses + (IF CountedUse(last') THEN 1 ELSE 0)
       /\ CountedUse(last') => app[Main].hintUses < maxHintUses(app[Main])]_vars

C1_Witness ==
  /\ CountedUse(last)
  /\ last.result = "Opened"
  /\ app[Main].hintBonus = 1
  /\ app[Main].hintUses = MAX_HINT_USES + 1

C3_FreeUseKeepsCounts ==
  [][(last'.op = "use" /\ last'.arg \in FREE_HINT_CODES
        /\ last'.arg \in DOMAIN app[Main].hints) =>
       /\ UsePassed(last')
       /\ app'[Main].hintUses = app[Main].hintUses
       /\ app'[Main].hintBonus = app[Main].hintBonus
       /\ localStorage'[LS_USES] = localStorage[LS_USES]
       /\ localStorage'[LS_BONUS] = localStorage[LS_BONUS]]_vars

C3_Witness ==
  /\ last = Saw("use", "Opened", E_00)
  /\ app[Main].hintUses >= maxHintUses(app[Main])
  /\ app[Main].hintUses > 0

\* C4: a use of an existing non-free code from a state with
\* hintUses >= maxHintUses shows QuotaExceeded, opens no window and changes
\* neither the view (counts, dictionary, timer, admin session) nor the
\* storage; with no bonus the uses below three pass and raise hintUses by one.
C4_QuotaExceededChangesNothing ==
  [][(last'.op = "use" /\ last'.arg \notin FREE_HINT_CODES
        /\ last'.arg \in DOMAIN app[Main].hints) =>
       /\ app[Main].hintUses >= maxHintUses(app[Main]) =>
            /\ last'.result = "QuotaExceeded"
            /\ app' = app
            /\ localStorage' = localStorage
       /\ (app[Main].hintBonus = 0 /\ app[Main].hintUses < 3) =>
            /\ UsePassed(last')
            /\ app'[Main].hintUses = app[Main].hintUses + 1]_vars

C4_Witness ==
  /\ last = Saw("use", "QuotaExceeded", E_01)
  /\ app[Main].hintBonus = 0
  /\ app[Main].hintUses = 3

\* The alert of a use whose input names no hint: nothing typed, or a code
\* that is not in the dictionary
ResolveFailed(l) ==
  l.result = (IF l.arg = <<>> THEN "EmptyCode" ELSE "NotFound")

\* C5: a use whose normalized code is not a key of the dictionary fails to
\* resolve (the invalid-code alert for a code that was typed), opens no
\* window and changes neither hintUses nor anything else.
C5_UnknownCodeChangesNothing ==
  [][(last'.op = "use" /\ last'.arg \notin DOMAIN app[Main].hints) =>
       /\ ResolveFailed(last')
       /\ app' = app
       /\ localStorage' = localStorage]_vars

C5_Witness ==
  /\ last = Saw("use", "NotFound", <<"Z", "Z">>)
  /\ app[Main].hintUses = 2

Granted(l) == l.op \in {"login", "topup"} /\ l.result = "Granted"

C8_LoginGrants ==
  [][(last'.op = "login" /\ last'.result = "Granted") =>
       /\ ~app[Main].adminMode
       /\ app'[Main].adminMode
       /\ app'[Main].adminAddRemaining = 1
       /\ app'[Main].hintBonus = app[Main].hintBonus + 1
       /\ maxHintUses(app'[Main]) = maxHintUses(app[Main]) + 1
       /\ app'[Main].hintUses = app[Main].hintUses
       /\ app'[Main].hints = app[Main].hints
       /\ TimerOf(app'[Main]) = TimerOf(app[Main])
       /\ app'[Main].nowMs = app[Main].nowMs]_vars

C8_Witness ==
  /\ last = Saw("login", "Granted", ADMIN_CODE)
  /\ app[Main].adminMode
  /\ app[Main].adminAddRemaining = 1
  /\ app[Main].hintBonus = 2
  /\ E_19 \in DOMAIN app[Main].hints

C10_TopUpKeepsSession ==
  [][(last'.op = "topup" /\ last'.result = "Granted") =>
       /\ app'[Main].hintBonus = app[Main].hintBonus + 1
       /\ app'[Main].adminMode = app[Main].adminMode
       /\ app'[Main].adminAddRemaining = app[Main].adminAddRemaining]_vars

C10_Witness ==
  /\ last.op = "topup"
  /\ last.result = "Granted"
  /\ app[Main].adminMode
  /\ app[Main].adminAddRemaining = 0

\* C11: a successful add happens only with the permit at 1 and leaves it at
\* 0; while the session lasts (adminMode stays true) no step raises the
\* permit; and an add attempted in a session whose permit is spent shows
\* AddQuotaExhausted and changes neither the dictionary nor anything else.
\* So one session holds at most one successful add.
C11_OneAddPerSession ==
  [][/\ (last'.op = "add" /\ last'.result = "Added") =>
          /\ app[Main].adminMode
          /\ app[Main].adminAddRemaining = 1
          /\ app'[Main].adminAddRemaining = 0
     /\ (app[Main].adminMode /\ app'[Main].adminMode) =>
          app'[Main].adminAddRemaining <= app[Main].adminAddRemaining
     /\ (last'.op = "add" /\ app[Main].adminMode
           /\ app[Main].adminAddRemaining = 0) =>
          /\ last'.result = "AddQuotaExhausted"
          /\ app' = app
          /\ localStorage' = localStorage]_vars

C11_Witness ==
  /\ last.op = "add"
  /\ last.result = "AddQuotaExhausted"
  /\ app[Main].adminMode
  /\ E_19 \in DOMAIN app[Main].hints
  /\ app[Main].hintBonus = 1

\* C12: adminAddRemaining is 0 or 1 in every state; a step that turns
\* adminMode from false to true leaves it at exactly 1, also when the permit
\* of the session before was not spent; a successful add lowers it by
\* exactly one.
C12_PermitIsZeroOrOne ==
  [][/\ app[Main].adminAddRemaining \in {0, 1}
     /\ app'[Main].adminAddRemaining \in {0, 1}
     /\ (~app[Main].adminMode /\ app'[Main].adminMode) =>
          app'[Main].adminAddRemaining = 1
     /\ (last'.op = "add" /\ last'.result = "Added") =>
          app'[Main].adminAddRemaining = app[Main].adminAddRemaining - 1]_vars

C12_Witness ==
  /\ last.op = "login"
  /\ last.result = "Granted"
  /\ app[Main].hintBonus = 2
  /\ app[Main].adminAddRemaining = 1
  /\ E_19 \notin DOMAIN app[Main].hints

AddRejected(l) == l.op = "add" /\ l.result \in {"EmptyField", "DuplicateCode"}

\* C14: an add turned down by validation (an empty code, title or body
\* after trimming, or a duplicate code) changes nothing, the permit included;
\* and from a session with the permit at 1 every add that validation does
\* not turn down succeeds: it inserts its code and spends the permit.
C14_RejectedAddKeepsPermit ==
  [][last'.op = "add" =>
       /\ AddRejected(last') =>
            /\ app' = app
            /\ localStorage' = localStorage
       /\ (/\ app[Main].adminMode
           /\ app[Main].adminAddRemaining = 1
           /\ ~AddRejected(last')) =>
            /\ last'.result = "Added"
            /\ last'.arg \in DOMAIN app'[Main].hints
            /\ app'[Main].adminAddRemaining = 0]_vars

C14_Witness ==
  /\ last = Saw("add", "EmptyField", E_19)
  /\ app[Main].adminMode
  /\ app[Main].adminAddRemaining = 1
  /\ E_19 \notin DOMAIN app[Main].hints

\* C15: an add attempted while adminMode is false shows a Forbidden error
\* to the operator and changes neither the dictionary nor the permit.
C15_InactiveAddIsForbidden ==
  [][(last'.op = "add" /\ ~app[Main].adminMode) =>
       /\ last'.result = "Forbidden"
       /\ app'[Main].hints = app[Main].hints
       /\ app'[Main].adminAddRemaining = app[Main].adminAddRemaining]_vars

\* C16: a delete removes the entry only in an admin session and on a
\* confirmed dialog.  With adminMode false, or the dialog dismissed, view
\* and storage are unchanged; a delete that goes through removes exactly
\* the key the dialog named, keeps every other record, and leaves hintUses,
\* hintBonus, the admin session, the timer and the other slots alone.
C16_DeleteNeedsSessionAndConfirm ==
  [][last'.op = "delete" =>
       /\ ~app[Main].adminMode => last'.result = "Ignored"
       /\ last'.result \in {"Ignored", "Dismissed", "Deleted"}
       /\ last'.result \in {"Ignored", "Dismissed"} =>
            /\ app' = app
            /\ localStorage' = localStorage
       /\ last'.result = "Deleted" =>
            /\ app[Main].adminMode
            /\ last'.arg \in DOMAIN app[Main].hints
            /\ DOMAIN app'[Main].hints = DOMAIN app[Main].hints \ {last'.arg}
            /\ \A c \in DOMAIN app'[Main].hints :
                 app'[Main].hints[c] = app[Main].hints[c]
            /\ app' = [app EXCEPT ![Main].hints = app'[Main].hints]
            /\ \A k \in LS_KEYS \ {LS_HINTS} :
                 localStorage'[k] = localStorage[k]
            /\ localStorage'[LS_HINTS] = Item(JSONstringify(app'[Main].hints))]_vars

C16_Witness ==
  /\ last = Saw("delete", "Deleted", E_01)
  /\ app[Main].adminAddRemaining = 1
  /\ app[Main].hintUses = MAX_HINT_USES
  /\ DOMAIN app[Main].hints = {E_00}

\* C17: a start request while the timer runs changes nothing: startAtMs,
\* durationSec, running, nowMs and the timer slot are as before, whatever
\* time has passed since the countdown began.
C17_StartWhileRunningIsNoOp ==
  [][(last'.op = "start" /\ app[Main].running) =>
       /\ last'.result = "Ignored"
       /\ TimerOf(app'[Main]) = TimerOf(app[Main])
       /\ app' = app
       /\ localStorage' = localStorage]_vars

C17_Witness ==
  /\ last = Saw("start", "Ignored", <<>>)
  /\ app[Main].running
  /\ app[Main].startAtMs = CLOCK_0
  /\ clock = CLOCK_0 + ShortStep

\* C18: in every state of the main view, whatever the timer slot held when
\* the page was opened, running implies that startAtMs is present and not
\* later than Date.now().
C18_RunningHasPastStart ==
  app[Main].running =>
    /\ app[Main].startAtMs # Null
    /\ app[Main].startAtMs <= clock

\* C19: remainingSec is never negative, equals durationSec in every state
\* with running false, and over a step that keeps the timer running (a tick
\* after time has passed included) it does not go up.
C19_RemainingBounded ==
  [][/\ remainingMs(app'[Main]) >= 0
     /\ ~app'[Main].running =>
          remainingMs(app'[Main]) = app'[Main].durationSec * 1000
     /\ (app[Main].running /\ app'[Main].running) =>
          remainingMs(app'[Main]) <= remainingMs(app[Main])]_vars

C19_Witness ==
  /\ last.op = "tick"
  /\ app[Main].running
  /\ app[Main].startAtMs = CLOCK_0
  /\ app[Main].nowMs - app[Main].startAtMs > app[Main].durationSec * 1000
  /\ remainingMs(app[Main]) = 0

\* C20: the step that stops an expired countdown (the auto-stop effect with
\* its time-expired notification) takes running from true to false, and
\* remainingSec is 0 once it has stopped.
C20_StopsOnceAtZero ==
  [][last'.result = "TimeExpired" =>
       /\ app[Main].running
       /\ ~app'[Main].running
       /\ remainingMs(app'[Main]) = 0]_vars
\* C21: once the timer has been started early enough for wall-clock time to
\* outlast the countdown, and the tick callback and the effects keep being
\* run, the main view eventually shows running = false.
C21_RunningEventuallyStops ==
  (/\ app[Main].running
   /\ app[Main].startAtMs # Null
   /\ app[Main].startAtMs + app[Main].durationSec * 1000 <= Horizon)
    ~> ~app[Main].running

C21_Witness ==
  /\ last = Saw("effects", "TimeExpired", <<>>)
  /\ ~app[Main].running
  /\ app[Main].startAtMs = CLOCK_0
  /\ app[Main].nowMs >= CLOCK_0 + app[Main].durationSec * 1000
\* C22 (as stated): the main view never has more than one interval callback
\* scheduled, and none in any state with running = false.
C22_NoTickWhileStopped ==
  /\ app[Main].liveIntervals <= 1
  /\ ~app[Main].running => app[Main].liveIntervals = 0

\* C22 (amended): the main view never has more than one interval callback
\* scheduled, and none once the effects of the render that committed
\* running = false have run; this holds through expiry and restart.
C22_NoTickOnceStopIsFlushed ==
  /\ app[Main].liveIntervals <= 1
  /\ (~app[Main].running /\ ~app[Main].pendingEffects) => app[Main].liveIntervals = 0
  /\ app[Main].liveIntervals = (IF app[Main].intervalRef = "live" THEN 1 ELSE 0)

C22_Witness ==
  /\ last = Saw("start", "Started", <<>>)
  /\ app[Main].startAtMs = CLOCK_0 + ClockStep
  /\ app[Main].running
  /\ app[Main].liveIntervals = 1
\* C23: whenever the main view is reloaded while its timer runs, the timer
\* slot holds that running timer, and the load that follows a reload takes
\* running, startAtMs and durationSec from the slot: the countdown goes on
\* from the same start instead of restarting.
C23_ReloadKeepsRunningTimer ==
  [][/\ (app[Main].running /\ last'.op = "reload")
          => localStorage[LS_TIMER] = Item(JSONstringify(TimerOf(app[Main])))
     /\ (/\ last'.op = "mount"
         /\ localStorage[LS_TIMER].present
         /\ localStorage[LS_TIMER].raw.value.running)
          => TimerOf(app'[Main]) = localStorage[LS_TIMER].raw.value]_vars
\* C24: a reload of the main view restores exactly the usedCount, the
\* bonusCount and the dictionary the view had before the reload.
C24_ReloadRestoresLedger ==
  [][last'.op = "reload"
       => /\ app'[Main].hintUses = app[Main].hintUses
          /\ app'[Main].hintBonus = app[Main].hintBonus
          /\ app'[Main].hints = app[Main].hints]_vars
C26_LoadYieldsValidLedger ==
  app[Main].phase = "rendered" =>
    /\ app[Main].hintUses \in Nat
    /\ app[Main].hintBonus \in Nat
    /\ \A c \in DOMAIN app[Main].hints :
         DOMAIN app[Main].hints[c] = {"title", "body"}
    /\ ~NumberIsFinite(Number(localStorage[LS_USES])) => app[Main].hintUses = 0
    /\ ~NumberIsFinite(Number(localStorage[LS_BONUS])) => app[Main].hintBonus = 0
    /\ localStorage[LS_HINTS] \in {NoItem, Item(Unparsable), Item(JsonNumber(5))}
         => app[Main].hints = DefaultHints
\* C27: no step of a hint window (its opening, its load, its reload, its
\* closing) changes the value of any of the four slots.
C27_HintWindowWritesNothing ==
  [][(app'[Main] = app[Main] /\ app'[Popup] # app[Popup])
       => localStorage' = localStorage]_vars
\* C28: a window navigated to by a hint parameter whose code is not in the
\* dictionary, or is missing, shows the invalid-code state: never a hint
\* record, never the main view.
C28_UnknownCodeShowsInvalid ==
  (app[Popup].phase # "closed" /\ app[Popup].hintParam \notin DOMAIN app[Popup].hints)
    => Shown(app[Popup]) = "InvalidCode"
\* C29: every key of the dictionary of the main view is trimmed and in
\* upper case, and use and add look a typed code up by its trimmed,
\* upper-cased form: a use or an add that finds no entry means no key
\* equals that form, one that finds an entry means a key does.
C29_KeysAreNormalized ==
  [][/\ \A k \in DOMAIN app[Main].hints : ToUpperCase(Trim(k)) = k
     /\ \A k \in DOMAIN app'[Main].hints : ToUpperCase(Trim(k)) = k
     /\ (last'.op \in {"use", "add"} /\ last'.result \in {"NotFound", "Added"})
          => ToUpperCase(Trim(last'.arg)) \notin DOMAIN app[Main].hints
     /\ (/\ last'.op \in {"use", "add"}
         /\ last'.result \in {"Opened", "PopupBlocked", "QuotaExceeded", "DuplicateCode"})
          => ToUpperCase(Trim(last'.arg)) \in DOMAIN app[Main].hints]_vars

\* E-19 was added as " e-19" and E-01 is opened as " e-01 "
C29_Witness ==
  /\ last = Saw("use", "Opened", E_01)
  /\ E_19 \in DOMAIN app[Main].hints
\* C30: login and top-up grant only when the submitted string is exactly
\* ADMIN_CODE; any other submitted string, padded or in another letter
\* case, is answered InvalidCode (a dismissed prompt submits nothing).
C30_OnlyExactSecretAccepted ==
  [][(last'.op \in {"login", "topup"} /\ last'.arg # ADMIN_CODE)
       => last'.result \in {"InvalidCode", "Cancelled"}]_vars
\* C31: use resolves the code before it checks the quota.  With the quota
\* used up, a use of a code that is not in the dictionary is answered
\* NotFound, and QuotaExceeded is answered only for a code that is in the
\* dictionary and is not free.
C31_ResolveBeforeQuota ==
  [][last'.op = "use" =>
       /\ (/\ app[Main].hintUses >= maxHintUses(app[Main])
           /\ last'.arg # <<>>
           /\ last'.arg \notin DOMAIN app[Main].hints)
            => last'.result = "NotFound"
       /\ last'.result = "QuotaExceeded"
            => (/\ last'.arg \in DOMAIN app[Main].hints
                /\ last'.arg \notin FREE_HINT_CODES
                /\ app[Main].hintUses >= maxHintUses(app[Main]))]_vars

\* An unknown code typed with the quota of three used up
C31_Witness ==
  /\ last = Saw("use", "NotFound", <<"Z", "Z">>)
  /\ app[Main].hintBonus = 0
  /\ app[Main].hintUses = MAX_HINT_USES

\* C32: a use of a non-free code whose hint window cannot be opened leaves
\* hintUses unchanged.
C32_BlockedUseIsNotCounted ==
  [][(last'.op = "use" /\ last'.result = "PopupBlocked" /\ last'.arg \notin FREE_HINT_CODES)
       => app'[Main].hintUses = app[Main].hintUses]_vars
\* C33: a non-free hint is on show only as the result of a counted use: the
\* number of hint windows showing the record of a non-free code, however
\* the window was reached, is at most hintUses.
C33_PresentedOnlyIfCounted ==
  LET presented == { v \in Popups : /\ app[v].phase # "closed"
                                    /\ Shown(app[v]) = "HintRecord"
                                    /\ app[v].hintParam \notin FREE_HINT_CODES }
  IN Cardinality(presented) <= app[Main].hintUses
\* C34: with the main view and a hint window on the same storage, whenever
\* no view has a write pending (every open view has run its effects and its
\* interval callback has caught up with the clock) the timer slot holds the
\* timer state of the main view.
C34_TimerSlotFollowsMain ==
  LET quiet(v) == \/ app[v].phase = "closed"
                  \/ /\ app[v].phase = "ready"
                     /\ ~app[v].pendingEffects
                     /\ app[v].liveIntervals > 0 => app[v].nowMs = clock
  IN (app[Main].phase = "ready" /\ \A v \in Views : quiet(v))
       => localStorage[LS_TIMER] = Item(JSONstringify(TimerOf(app[Main])))

\* C35: the time-expired notification is raised by the main view only: no
\* step of a hint window raises it.
C35_OnlyMainNotifies ==
  [][last'.result = "TimeExpired" => app'[Popup] = app[Popup]]_vars
\* C36: a start of a stopped timer that still holds the startAtMs of an
\* expired countdown is accepted and begins a fresh countdown: startAtMs is
\* the current time, running is true, the duration is unchanged and the
\* remaining time is the full duration.
C36_RestartIsFresh ==
  [][(/\ last'.op = "start"
      /\ ~app[Main].running
      /\ app[Main].startAtMs # Null)
       => /\ last'.result = "Started"
          /\ app'[Main].running
          /\ app'[Main].startAtMs = clock
          /\ app'[Main].durationSec = app[Main].durationSec
          /\ remainingMs(app'[Main]) = app'[Main].durationSec * 1000
          /\ localStorage'[LS_TIMER] = Item(JSONstringify(TimerOf(app'[Main])))]_vars

\* A countdown started one full countdown after the first one
C36_Witness ==
  /\ last = Saw("start", "Started", <<>>)
  /\ clock = CLOCK_0 + ClockStep
  /\ app[Main].startAtMs = clock
  /\ app[Main].nowMs = clock
  /\ remainingMs(app[Main]) = DEFAULT_DURATION_MIN * 60 * 1000
====
